---- MODULE Spec2Model ----
(***************************************************************************)
(* ultrastar-txt: the parser (src/parser.rs) and the generator             *)
(* (src/generator.rs) of the Ultrastar song text format.                   *)
(*                                                                         *)
(* A text (&str / String) is a sequence of one-character strings.  The     *)
(* regular expressions of the parser are matchers over such sequences,     *)
(* integers are parsed from and formatted to digit characters, and         *)
(* str::lines splits a text at its newline characters.                     *)
(***************************************************************************)
EXTENDS Integers, Sequences, FiniteSets, TLC

(***************************************************************************)
(* Bounds of the model.                                                    *)
(***************************************************************************)
\* largest magnitude str::parse accepts for an integer (the integer width,
\* scaled down so that a literal that overflows stays two digits long)
MaxInt == 20
\* lines of a body text handed to parse_txt_lines_str
MaxBodyLines == 3
\* free lines of a header text handed to parse_txt_header_str
MaxHdrLines == 2
\* Lines of a song handed to generate_song_txt
MaxSongLines == 2

(***************************************************************************)
(* Option<T>                                                               *)
(***************************************************************************)
None == <<>>
Some(x) == <<x>>
IsSome(o) == Len(o) = 1
IsNone(o) == Len(o) = 0
Unwrap(o) == o[1]

(***************************************************************************)
(* Characters and character classes of the regex crate.                    *)
(***************************************************************************)
Digits == {"0", "1", "2", "3", "4", "5", "6", "7", "8", "9"}
\* \s
White == {" ", "\t", "\n", "\r", "\f"}
\* [A-Z3a-z]
KeyChars ==
    {"A", "B", "C", "D", "E", "F", "G", "H", "I", "J", "K", "L", "M",
     "N", "O", "P", "Q", "R", "S", "T", "U", "V", "W", "X", "Y", "Z",
     "a", "b", "c", "d", "e", "f", "g", "h", "i", "j", "k", "l", "m",
     "n", "o", "p", "q", "r", "s", "t", "u", "v", "w", "x", "y", "z", "3"}

\* s[i..j] (1-based, inclusive; empty when j < i)
Slice(s, i, j) == IF j < i THEN <<>> ELSE SubSeq(s, i, j)

RECURSIVE SkipWhile(_, _, _)
\* first index >= i of s whose character is not in class (Len(s)+1 if none)
SkipWhile(s, i, class) ==
    IF i < 1 \/ i > Len(s) THEN i
    ELSE IF s[i] \in class THEN SkipWhile(s, i + 1, class)
    ELSE i

RECURSIVE Concat(_)
Concat(ss) == IF ss = <<>> THEN <<>> ELSE Head(ss) \o Concat(Tail(ss))

(***************************************************************************)
(* str::parse::<integer> and the Display of an integer.                    *)
(***************************************************************************)
DigitVal(c) ==
    CASE c = "0" -> 0 [] c = "1" -> 1 [] c = "2" -> 2 [] c = "3" -> 3
      [] c = "4" -> 4 [] c = "5" -> 5 [] c = "6" -> 6 [] c = "7" -> 7
      [] c = "8" -> 8 [] c = "9" -> 9

DigitChar(d) ==
    CASE d = 0 -> "0" [] d = 1 -> "1" [] d = 2 -> "2" [] d = 3 -> "3"
      [] d = 4 -> "4" [] d = 5 -> "5" [] d = 6 -> "6" [] d = 7 -> "7"
      [] d = 8 -> "8" [] d = 9 -> "9"

RECURSIVE NatVal(_)
NatVal(s) ==
    IF s = <<>> THEN 0
    ELSE 10 * NatVal(SubSeq(s, 1, Len(s) - 1)) + DigitVal(s[Len(s)])

RECURSIVE NatStr(_)
NatStr(n) ==
    IF n < 10 THEN <<DigitChar(n)>>
    ELSE NatStr(n \div 10) \o <<DigitChar(n % 10)>>

\* an optional sign followed by one or more digits
IsIntLit(s) ==
    LET body == IF Len(s) > 0 /\ s[1] \in {"-", "+"} THEN Tail(s) ELSE s
    IN  /\ Len(body) > 0
        /\ \A i \in 1..Len(body) : body[i] \in Digits

\* Ok(v) as Some(v), Err(_) as None
ParseInt(s) ==
    IF ~IsIntLit(s) THEN None
    ELSE LET neg == s[1] = "-"
             body == IF s[1] \in {"-", "+"} THEN Tail(s) ELSE s
             v == IF neg THEN 0 - NatVal(body) ELSE NatVal(body)
         IN  IF v >= 0 - MaxInt - 1 /\ v <= MaxInt THEN Some(v) ELSE None

FormatInt(n) == IF n < 0 THEN <<"-">> \o NatStr(0 - n) ELSE NatStr(n)

(***************************************************************************)
(* str::lines: the text split at "\n", a "\r" before the "\n" dropped,     *)
(* no last empty line after a final "\n".                                  *)
(***************************************************************************)
StripCr(l) ==
    IF Len(l) > 0 /\ l[Len(l)] = "\r" THEN SubSeq(l, 1, Len(l) - 1) ELSE l

Lines(s) ==
    LET nl == {i \in 1..Len(s) : s[i] = "\n"}
        \* the index after the last character of each line
        ends == nl \cup (IF Len(s) > 0 /\ s[Len(s)] # "\n" THEN {Len(s) + 1} ELSE {})
        EndOf(k) == CHOOSE e \in ends : Cardinality({x \in ends : x < e}) = k - 1
        StartOf(k) == IF k = 1 THEN 1 ELSE EndOf(k - 1) + 1
    IN  [k \in 1..Cardinality(ends) |->
            IF EndOf(k) \in nl THEN StripCr(Slice(s, StartOf(k), EndOf(k) - 1))
            ELSE Slice(s, StartOf(k), EndOf(k) - 1)]

RECURSIVE JoinLines(_)
\* the lines of ls, a "\n" between two of them
JoinLines(ls) ==
    IF ls = <<>> THEN <<>>
    ELSE IF Len(ls) = 1 THEN ls[1]
    ELSE ls[1] \o <<"\n">> \o JoinLines(Tail(ls))

(***************************************************************************)
(* The regular expressions of parse_txt_lines_str.  -?[0-9]+ and \s* are   *)
(* greedy and their classes are disjoint, so the leftmost-first match is   *)
(* the greedy scan.                                                        *)
(***************************************************************************)
\* -?[0-9]+ at index i: the index after the match, 0 when there is none
IntEnd(s, i) ==
    IF i < 1 THEN 0
    ELSE LET j == IF i <= Len(s) /\ s[i] = "-" THEN i + 1 ELSE i
             k == SkipWhile(s, j, Digits)
         IN  IF k > j THEN k ELSE 0

\* \s+ at index i: the index after the match, 0 when there is none
WhiteEnd(s, i) ==
    IF i < 1 THEN 0
    ELSE LET k == SkipWhile(s, i, White) IN IF k > i THEN k ELSE 0

\* \s? at index i
OptWhiteEnd(s, i) == IF i >= 1 /\ i <= Len(s) /\ s[i] \in White THEN i + 1 ELSE i

\* ^(.)\s*(-?[0-9]+)\s+(-?[0-9]+)\s+(-?[0-9]+)\s?(.*) : the captures, or None
NOTE_RE(s) ==
    IF Len(s) < 1 \/ s[1] = "\n" THEN None
    ELSE LET a1 == SkipWhile(s, 2, White)
             e1 == IntEnd(s, a1)
             a2 == WhiteEnd(s, e1)
             e2 == IntEnd(s, a2)
             a3 == WhiteEnd(s, e2)
             e3 == IntEnd(s, a3)
             t  == OptWhiteEnd(s, e3)
         IN  IF e3 = 0 THEN None
             ELSE Some([c1 |-> <<s[1]>>,
                        c2 |-> Slice(s, a1, e1 - 1),
                        c3 |-> Slice(s, a2, e2 - 1),
                        c4 |-> Slice(s, a3, e3 - 1),
                        c5 |-> Slice(s, t, Len(s))])

\* LINE_RE without its \s*$
LINE_RE_Open(s) ==
    IF Len(s) < 1 \/ s[1] # "-" THEN None
    ELSE LET a1 == OptWhiteEnd(s, 2)
             e1 == IntEnd(s, a1)
         IN  IF e1 = 0 THEN None
             ELSE Some([c1 |-> Slice(s, a1, e1 - 1)])

\* ^-\s?(-?[0-9]+)\s*$
LINE_RE(s) ==
    IF Len(s) < 1 \/ s[1] # "-" THEN None
    ELSE LET a1 == OptWhiteEnd(s, 2)
             e1 == IntEnd(s, a1)
         IN  IF e1 = 0 \/ SkipWhile(s, e1, White) # Len(s) + 1 THEN None
             ELSE Some([c1 |-> Slice(s, a1, e1 - 1)])

\* ^-\s?(-?[0-9]+)\s+(-?[0-9]+)
LREL_RE(s) ==
    IF Len(s) < 1 \/ s[1] # "-" THEN None
    ELSE LET a1 == OptWhiteEnd(s, 2)
             e1 == IntEnd(s, a1)
             a2 == WhiteEnd(s, e1)
             e2 == IntEnd(s, a2)
         IN  IF e2 = 0 THEN None
             ELSE Some([c1 |-> Slice(s, a1, e1 - 1),
                        c2 |-> Slice(s, a2, e2 - 1)])

\* ^P\s?(-?[0-9]+)
DUET_RE(s) ==
    IF Len(s) < 1 \/ s[1] # "P" THEN None
    ELSE LET a1 == OptWhiteEnd(s, 2)
             e1 == IntEnd(s, a1)
         IN  IF e1 = 0 THEN None
             ELSE Some([c1 |-> Slice(s, a1, e1 - 1)])

(***************************************************************************)
(* Result<T, Error> and the Error variants of the parser                   *)
(* (parser.rs 11-60) and of the generator (generator.rs 9-16).             *)
(***************************************************************************)
NoResult == [tag |-> "None"]
Ok(v) == [tag |-> "Ok", val |-> v]
Err(e) == [tag |-> "Err", err |-> e]
IsOk(r) == r.tag = "Ok"
IsErr(r) == r.tag = "Err"

DuplicateHeader(line, tag) == [kind |-> "DuplicateHeader", line |-> line, tag |-> tag]
MissingEssential == [kind |-> "MissingEssential"]
ValueError(line, field) == [kind |-> "ValueError", line |-> line, field |-> field]
UnknownNoteType(line) == [kind |-> "UnknownNoteType", line |-> line]
ParserFailure(line) == [kind |-> "ParserFailure", line |-> line]
MissingEndIndicator == [kind |-> "MissingEndIndicator"]
NotImplemented(line, feature) == [kind |-> "NotImplemented", line |-> line, feature |-> feature]

(***************************************************************************)
(* Line and Note, as the parser builds them and the generator reads them.  *)
(***************************************************************************)
Regular(start, duration, pitch, text) ==
    [type |-> "Regular", start |-> start, duration |-> duration, pitch |-> pitch, text |-> text]
Golden(start, duration, pitch, text) ==
    [type |-> "Golden", start |-> start, duration |-> duration, pitch |-> pitch, text |-> text]
Freestyle(start, duration, pitch, text) ==
    [type |-> "Freestyle", start |-> start, duration |-> duration, pitch |-> pitch, text |-> text]
PlayerChange(player) == [type |-> "PlayerChange", player |-> player]
Line(start, rel, notes) == [start |-> start, rel |-> rel, notes |-> notes]

Timed == {"Regular", "Golden", "Freestyle"}

VARIABLES
    txt_str,              \* the text handed to the parser
    txt_lines,            \* txt_str.lines(), the lines the loops run over
    hstate,               \* parse_txt_header_str: "idle", "scan" (in the loop), "done"
    hline,                \* line_count of the header loop
    opt,                  \* opt_title .. opt_unknown
    hres,                 \* the Result parse_txt_header_str returns
    lstate,               \* parse_txt_lines_str: "idle", "scan" (in the loop), "done"
    lline,                \* line_count of the lines loop
    lines_vec,
    current_line,
    found_end_indicator,
    lres,                 \* the Result parse_txt_lines_str returns
    gstate,               \* generate_song_txt: "idle", "header", "lines", "done"
    header,               \* the Header handed to the generator
    lines,                \* the Lines handed to the generator
    gline,                \* index of the Line the generator is at
    song_txt_str,
    gres                  \* the Result generate_song_txt returns

vars == <<txt_str, txt_lines, hstate, hline, opt, hres, lstate, lline, lines_vec, current_line,
          found_end_indicator, lres, gstate, header, lines, gline, song_txt_str, gres>>

hvars == <<hstate, hline, opt, hres>>
lvars == <<lstate, lline, lines_vec, current_line, found_end_indicator, lres>>
gvars == <<gstate, header, lines, gline, song_txt_str, gres>>

(***************************************************************************)
(* parse_txt_lines_str (parser.rs 287-453)                                 *)
(***************************************************************************)
\* NoteOf without the test x >= 0 of the duration
NoteOfAnyDuration(cap, line_count) ==
    LET note_start == ParseInt(cap.c2)
        note_duration == ParseInt(cap.c3)
        note_pitch == ParseInt(cap.c4)
        note_text == cap.c5
    IN  IF IsNone(note_start) THEN Err(ValueError(line_count, "note start"))
        ELSE IF IsNone(note_duration) THEN Err(ValueError(line_count, "note duration"))
        ELSE IF IsNone(note_pitch) THEN Err(ValueError(line_count, "note pitch"))
        ELSE IF cap.c1 = <<":">> THEN
            Ok(Regular(Unwrap(note_start), Unwrap(note_duration), Unwrap(note_pitch), note_text))
        ELSE IF cap.c1 = <<"*">> THEN
            Ok(Golden(Unwrap(note_start), Unwrap(note_duration), Unwrap(note_pitch), note_text))
        ELSE IF cap.c1 = <<"F">> THEN
            Ok(Freestyle(Unwrap(note_start), Unwrap(note_duration), Unwrap(note_pitch), note_text))
        ELSE Err(UnknownNoteType(line_count))

\* the note of a line NOTE_RE matches, or the error of its first bad field
NoteOf(cap, line_count) ==
    LET note_start == ParseInt(cap.c2)
        note_duration == ParseInt(cap.c3)
        note_pitch == ParseInt(cap.c4)
        note_text == cap.c5
    IN  IF IsNone(note_start) THEN Err(ValueError(line_count, "note start"))
        ELSE IF IsNone(note_duration) THEN Err(ValueError(line_count, "note duration"))
        ELSE IF ~(Unwrap(note_duration) >= 0) THEN Err(ValueError(line_count, "note duration"))
        ELSE IF IsNone(note_pitch) THEN Err(ValueError(line_count, "note pitch"))
        ELSE IF cap.c1 = <<":">> THEN
            Ok(Regular(Unwrap(note_start), Unwrap(note_duration), Unwrap(note_pitch), note_text))
        ELSE IF cap.c1 = <<"*">> THEN
            Ok(Golden(Unwrap(note_start), Unwrap(note_duration), Unwrap(note_pitch), note_text))
        ELSE IF cap.c1 = <<"F">> THEN
            Ok(Freestyle(Unwrap(note_start), Unwrap(note_duration), Unwrap(note_pitch), note_text))
        ELSE Err(UnknownNoteType(line_count))

\* LineBreakOf with the start of the new Line left at 0
LineBreakOfNoStart(cap, line_count) ==
    LET line_start == ParseInt(cap.c1)
    IN  IF IsNone(line_start) THEN Err(ValueError(line_count, "line start"))
        ELSE Ok(Line(0, None, <<>>))

\* the Line a simple line break opens
LineBreakOf(cap, line_count) ==
    LET line_start == ParseInt(cap.c1)
    IN  IF IsNone(line_start) THEN Err(ValueError(line_count, "line start"))
        ELSE Ok(Line(Unwrap(line_start), None, <<>>))

\* the Line a relative line break opens
RelBreakOf(cap, line_count) ==
    LET line_start == ParseInt(cap.c1)
        line_rel == ParseInt(cap.c2)
    IN  IF IsNone(line_start) THEN Err(ValueError(line_count, "line start"))
        ELSE IF IsNone(line_rel) THEN Err(ValueError(line_count, "line rel"))
        ELSE Ok(Line(Unwrap(line_start), Some(Unwrap(line_rel)), <<>>))

\* DuetOf with the range test x >= 0 && x <= 3
DuetOfFromZero(cap, line_count) ==
    LET x == ParseInt(cap.c1)
    IN  IF IsNone(x) THEN Err(ValueError(line_count, "player change"))
        ELSE IF Unwrap(x) >= 0 /\ Unwrap(x) <= 3 THEN Ok(PlayerChange(Unwrap(x)))
        ELSE Err(ValueError(line_count, "player change"))

\* the PlayerChange of a line DUET_RE matches
DuetOf(cap, line_count) ==
    LET x == ParseInt(cap.c1)
    IN  IF IsNone(x) THEN Err(ValueError(line_count, "player change"))
        ELSE IF Unwrap(x) >= 1 /\ Unwrap(x) <= 3 THEN Ok(PlayerChange(Unwrap(x)))
        ELSE Err(ValueError(line_count, "player change"))

TxtLines == txt_lines

\* the loop is at a line: txt_str.lines().zip(1..) yields (LLine, lline)
LAtLine == lstate = "scan" /\ ~found_end_indicator /\ lline <= Len(TxtLines)
LLine == TxtLines[lline]
first_char == LLine[1]

LFail(e) ==
    /\ lres' = Err(e)
    /\ lstate' = "done"

LContinue ==
    /\ lline' = lline + 1
    /\ UNCHANGED <<lstate, lres>>

\* line.chars().nth(0) is None
LnEmpty ==
    /\ LAtLine
    /\ LLine = <<>>
    /\ LFail(ParserFailure(lline))
    /\ UNCHANGED <<txt_str, txt_lines, lline, lines_vec, current_line, found_end_indicator>>
    /\ UNCHANGED <<hvars, gvars>>

\* ignore header
LnHeader ==
    /\ LAtLine
    /\ LLine # <<>>
    /\ first_char = "#"
    /\ LContinue
    /\ UNCHANGED <<txt_str, txt_lines, lines_vec, current_line, found_end_indicator>>
    /\ UNCHANGED <<hvars, gvars>>

\* not implemented
LnBpm ==
    /\ LAtLine
    /\ LLine # <<>>
    /\ first_char = "B"
    /\ LFail(NotImplemented(lline, "variable bpm"))
    /\ UNCHANGED <<txt_str, txt_lines, lline, lines_vec, current_line, found_end_indicator>>
    /\ UNCHANGED <<hvars, gvars>>

\* LnEnd without the break: the scan goes on with the line after 'E'
LnEndNoBreak ==
    /\ LAtLine
    /\ LLine # <<>>
    /\ first_char = "E"
    /\ lines_vec' = Append(lines_vec, current_line)
    /\ LContinue
    /\ UNCHANGED <<txt_str, txt_lines, current_line, found_end_indicator>>
    /\ UNCHANGED <<hvars, gvars>>

\* stop parsing after end symbol
LnEnd ==
    /\ LAtLine
    /\ LLine # <<>>
    /\ first_char = "E"
    /\ lines_vec' = Append(lines_vec, current_line)
    /\ found_end_indicator' = TRUE
    /\ UNCHANGED <<txt_str, txt_lines, lstate, lline, current_line, lres>>
    /\ UNCHANGED <<hvars, gvars>>

\* none of the first-character rules took the line
LPastFirstChar ==
    /\ LAtLine
    /\ LLine # <<>>
    /\ first_char \notin {"#", "B", "E"}

\* current line is a note
LnNote ==
    /\ LPastFirstChar
    /\ IsSome(NOTE_RE(LLine))
    /\ LET note == NoteOf(Unwrap(NOTE_RE(LLine)), lline)
       IN  IF IsOk(note)
           THEN /\ current_line' = [current_line EXCEPT !.notes = Append(@, note.val)]
                /\ LContinue
           ELSE /\ LFail(note.err)
                /\ UNCHANGED <<lline, current_line>>
    /\ UNCHANGED <<txt_str, txt_lines, lines_vec, found_end_indicator>>
    /\ UNCHANGED <<hvars, gvars>>

\* current line is a line break
LnBreak ==
    /\ LPastFirstChar
    /\ IsNone(NOTE_RE(LLine))
    /\ IsSome(LINE_RE(LLine))
    /\ lines_vec' = Append(lines_vec, current_line)
    /\ LET new == LineBreakOf(Unwrap(LINE_RE(LLine)), lline)
       IN  IF IsOk(new)
           THEN /\ current_line' = new.val
                /\ LContinue
           ELSE /\ LFail(new.err)
                /\ UNCHANGED <<lline, current_line>>
    /\ UNCHANGED <<txt_str, txt_lines, found_end_indicator>>
    /\ UNCHANGED <<hvars, gvars>>

\* current line is a relative line break
LnRelBreak ==
    /\ LPastFirstChar
    /\ IsNone(NOTE_RE(LLine))
    /\ IsNone(LINE_RE(LLine))
    /\ IsSome(LREL_RE(LLine))
    /\ lines_vec' = Append(lines_vec, current_line)
    /\ LET new == RelBreakOf(Unwrap(LREL_RE(LLine)), lline)
       IN  IF IsOk(new)
           THEN /\ current_line' = new.val
                /\ LContinue
           ELSE /\ LFail(new.err)
                /\ UNCHANGED <<lline, current_line>>
    /\ UNCHANGED <<txt_str, txt_lines, found_end_indicator>>
    /\ UNCHANGED <<hvars, gvars>>

\* a player change
LnDuet ==
    /\ LPastFirstChar
    /\ IsNone(NOTE_RE(LLine))
    /\ IsNone(LINE_RE(LLine))
    /\ IsNone(LREL_RE(LLine))
    /\ IsSome(DUET_RE(LLine))
    /\ LET note == DuetOf(Unwrap(DUET_RE(LLine)), lline)
       IN  IF IsOk(note)
           THEN /\ current_line' = [current_line EXCEPT !.notes = Append(@, note.val)]
                /\ LContinue
           ELSE /\ LFail(note.err)
                /\ UNCHANGED <<lline, current_line>>
    /\ UNCHANGED <<txt_str, txt_lines, lines_vec, found_end_indicator>>
    /\ UNCHANGED <<hvars, gvars>>

\* unknown line
LnUnknown ==
    /\ LPastFirstChar
    /\ IsNone(NOTE_RE(LLine))
    /\ IsNone(LINE_RE(LLine))
    /\ IsNone(LREL_RE(LLine))
    /\ IsNone(DUET_RE(LLine))
    /\ LFail(ParserFailure(lline))
    /\ UNCHANGED <<txt_str, txt_lines, lline, lines_vec, current_line, found_end_indicator>>
    /\ UNCHANGED <<hvars, gvars>>

\* LResult without the test of found_end_indicator
LResultUnchecked == Ok(lines_vec)

\* the loop is left, by the break or with the lines exhausted
LResult == IF found_end_indicator THEN Ok(lines_vec) ELSE Err(MissingEndIndicator)

LnReturn ==
    /\ lstate = "scan"
    /\ found_end_indicator \/ lline > Len(TxtLines)
    /\ lres' = LResult
    /\ lstate' = "done"
    /\ UNCHANGED <<txt_str, txt_lines, lline, lines_vec, current_line, found_end_indicator>>
    /\ UNCHANGED <<hvars, gvars>>

LinesNext ==
    \/ LnEmpty
    \/ LnHeader
    \/ LnBpm
    \/ LnEnd
    \/ LnNote
    \/ LnBreak
    \/ LnRelBreak
    \/ LnDuet
    \/ LnUnknown
    \/ LnReturn

(***************************************************************************)
(* parse_txt_header_str (parser.rs 67-280)                                 *)
(***************************************************************************)
RECURSIVE REFrom(_, _)
\* #([A-Z3a-z]*):(.*) searched from index i on: the captures of the leftmost
\* match, or None
REFrom(s, i) ==
    IF i > Len(s) THEN None
    ELSE IF s[i] = "#"
            /\ SkipWhile(s, i + 1, KeyChars) <= Len(s)
            /\ s[SkipWhile(s, i + 1, KeyChars)] = ":"
         THEN LET k == SkipWhile(s, i + 1, KeyChars)
              IN  Some([c1 |-> Slice(s, i + 1, k - 1),
                        c2 |-> Slice(s, k + 1, Len(s))])
         ELSE REFrom(s, i + 1)

RE(s) == REFrom(s, 1)

\* the tag names of the match
TITLE == <<"T", "I", "T", "L", "E">>
ARTIST == <<"A", "R", "T", "I", "S", "T">>
MP3 == <<"M", "P", "3">>
BPM == <<"B", "P", "M">>
GAP == <<"G", "A", "P">>
COVER == <<"C", "O", "V", "E", "R">>
BACKGROUND == <<"B", "A", "C", "K", "G", "R", "O", "U", "N", "D">>
VIDEO == <<"V", "I", "D", "E", "O">>
VIDEOGAP == <<"V", "I", "D", "E", "O", "G", "A", "P">>
GENRE == <<"G", "E", "N", "R", "E">>
EDITION == <<"E", "D", "I", "T", "I", "O", "N">>
LANGUAGE == <<"L", "A", "N", "G", "U", "A", "G", "E">>
YEAR == <<"Y", "E", "A", "R">>
RELATIVE == <<"R", "E", "L", "A", "T", "I", "V", "E">>

\* str::replace(",", ".")
ReplaceComma(s) == [i \in 1..Len(s) |-> IF s[i] = "," THEN "." ELSE s[i]]

RECURSIVE Normal(_, _)
\* n / 10^k with no trailing zero in the fraction
Normal(n, k) == IF k > 0 /\ n % 10 = 0 THEN Normal(n \div 10, k - 1) ELSE <<n, k>>

\* str::parse::<float> of a decimal literal (sign, digits, at most one point):
\* the value n / 10^k as Some(<<n, k>>), or None
ParseFloat(s) ==
    LET signed == Len(s) > 0 /\ s[1] \in {"-", "+"}
        body == IF signed THEN Tail(s) ELSE s
        p == SkipWhile(body, 1, Digits)
        int == Slice(body, 1, p - 1)
        frac == Slice(body, p + 1, Len(body))
        wellformed ==
            /\ Len(int) + Len(frac) > 0
            /\ p <= Len(body) => body[p] = "."
            /\ \A i \in 1..Len(frac) : frac[i] \in Digits
        n == NatVal(int \o frac)
    IN  IF ~wellformed THEN None
        ELSE Some(Normal(IF s[1] = "-" THEN 0 - n ELSE n, Len(frac)))

RECURSIVE PadZero(_, _)
PadZero(s, len) == IF Len(s) >= len THEN s ELSE PadZero(<<"0">> \o s, len)

\* the Display of a float n / 10^k
FormatFloat(f) ==
    LET n == f[1]
        k == f[2]
        ds == PadZero(NatStr(IF n < 0 THEN 0 - n ELSE n), k + 1)
        sign == IF n < 0 THEN <<"-">> ELSE <<>>
    IN  IF k = 0 THEN sign \o ds
        ELSE sign \o SubSeq(ds, 1, Len(ds) - k) \o <<".">> \o SubSeq(ds, Len(ds) - k + 1, Len(ds))

\* all of opt_title .. opt_unknown None
NoOpt ==
    [title |-> None, artist |-> None, bpm |-> None, audio_path |-> None,
     gap |-> None, cover_path |-> None, background_path |-> None,
     video_path |-> None, video_gap |-> None, genre |-> None, edition |-> None,
     language |-> None, year |-> None, relative |-> None, unknown |-> None]

\* StoreOnce without the test opt_f.is_none(): a later value overwrites
StoreAlways(o, f, parsed, line_count, tag) ==
    IF IsNone(parsed) THEN Err(ValueError(line_count, tag))
    ELSE Ok([o EXCEPT ![f] = parsed])

\* if opt_f.is_none() { opt_f = parsed or ValueError } else { DuplicateHeader }
StoreOnce(o, f, parsed, line_count, tag) ==
    IF IsNone(o[f])
    THEN IF IsNone(parsed) THEN Err(ValueError(line_count, tag))
         ELSE Ok([o EXCEPT ![f] = parsed])
    ELSE Err(DuplicateHeader(line_count, tag))

\* "YES" | "yes" => Some(true), "NO" | "no" => Some(false), _ => ValueError
ParseRelative(value) ==
    IF value = <<"Y", "E", "S">> \/ value = <<"y", "e", "s">> THEN Some(TRUE)
    ELSE IF value = <<"N", "O">> \/ value = <<"n", "o">> THEN Some(FALSE)
    ELSE None

\* use hashmap to store unknown tags
StoreUnknown(o, k, value, line_count) ==
    IF IsSome(o.unknown)
    THEN LET x == Unwrap(o.unknown)
         IN  IF k \notin DOMAIN x
             THEN Ok([o EXCEPT !.unknown =
                        Some([j \in DOMAIN x \cup {k} |-> IF j = k THEN value ELSE x[j]])])
             ELSE Err(DuplicateHeader(line_count, "UNKNOWN"))
    ELSE Ok([o EXCEPT !.unknown = Some([j \in {k} |-> value])])

\* match key { ... } on the options o: the options after it, or its error
MatchKey(o, key, value, line_count) ==
    CASE key = TITLE -> StoreOnce(o, "title", Some(value), line_count, "TITLE")
      [] key = ARTIST -> StoreOnce(o, "artist", Some(value), line_count, "ARTIST")
      [] key = MP3 -> StoreOnce(o, "audio_path", Some(value), line_count, "MP3")
      [] key = BPM -> StoreOnce(o, "bpm", ParseFloat(ReplaceComma(value)), line_count, "BPM")
      [] key = GAP -> StoreOnce(o, "gap", ParseFloat(ReplaceComma(value)), line_count, "GAP")
      [] key = COVER -> StoreOnce(o, "cover_path", Some(value), line_count, "COVER")
      [] key = BACKGROUND ->
            StoreOnce(o, "background_path", Some(value), line_count, "BACKGROUND")
      [] key = VIDEO -> StoreOnce(o, "video_path", Some(value), line_count, "VIDEO")
      [] key = VIDEOGAP ->
            StoreOnce(o, "video_gap", ParseFloat(ReplaceComma(value)), line_count, "VIDEOGAP")
      [] key = GENRE -> StoreOnce(o, "genre", Some(value), line_count, "GENRE")
      [] key = EDITION -> StoreOnce(o, "edition", Some(value), line_count, "EDITION")
      [] key = LANGUAGE -> StoreOnce(o, "language", Some(value), line_count, "LANGUAGE")
      [] key = YEAR -> StoreOnce(o, "year", ParseInt(value), line_count, "YEAR")
      [] key = RELATIVE -> StoreOnce(o, "relative", ParseRelative(value), line_count, "RELATIVE")
      [] OTHER -> StoreUnknown(o, key, value, line_count)

\* BuildHeader with the audio path optional (an empty path when absent)
BuildHeaderNoPath(o) ==
    IF IsSome(o.title) /\ IsSome(o.artist) /\ IsSome(o.bpm)
    THEN Ok([title |-> Unwrap(o.title), artist |-> Unwrap(o.artist),
             bpm |-> Unwrap(o.bpm),
             audio_path |-> IF IsSome(o.audio_path) THEN Unwrap(o.audio_path) ELSE <<>>,
             gap |-> o.gap, cover_path |-> o.cover_path,
             background_path |-> o.background_path, video_path |-> o.video_path,
             video_gap |-> o.video_gap, genre |-> o.genre, edition |-> o.edition,
             language |-> o.language, year |-> o.year, relative |-> o.relative,
             unknown |-> o.unknown])
    ELSE Err(MissingEssential)

\* build header from Options
BuildHeader(o) ==
    IF IsSome(o.title) /\ IsSome(o.artist) /\ IsSome(o.bpm) /\ IsSome(o.audio_path)
    THEN Ok([title |-> Unwrap(o.title), artist |-> Unwrap(o.artist),
             bpm |-> Unwrap(o.bpm), audio_path |-> Unwrap(o.audio_path),
             gap |-> o.gap, cover_path |-> o.cover_path,
             background_path |-> o.background_path, video_path |-> o.video_path,
             video_gap |-> o.video_gap, genre |-> o.genre, edition |-> o.edition,
             language |-> o.language, year |-> o.year, relative |-> o.relative,
             unknown |-> o.unknown])
    ELSE Err(MissingEssential)

\* the loop is at a line: txt_str.lines().zip(1..) yields (HLine, hline)
HAtLine == hstate = "scan" /\ hline <= Len(TxtLines)
HLine == TxtLines[hline]

\* if value == "" { continue }
HdrSkip ==
    /\ HAtLine
    /\ IsSome(RE(HLine))
    /\ Unwrap(RE(HLine)).c2 = <<>>
    /\ hline' = hline + 1
    /\ UNCHANGED <<txt_str, txt_lines, hstate, opt, hres>>
    /\ UNCHANGED <<lvars, gvars>>

\* the match on the key of a tag with a value
HdrTag ==
    /\ HAtLine
    /\ IsSome(RE(HLine))
    /\ Unwrap(RE(HLine)).c2 # <<>>
    /\ LET cap == Unwrap(RE(HLine))
           r == MatchKey(opt, cap.c1, cap.c2, hline)
       IN  IF IsOk(r)
           THEN /\ opt' = r.val
                /\ hline' = hline + 1
                /\ UNCHANGED <<hstate, hres>>
           ELSE /\ hres' = r
                /\ hstate' = "done"
                /\ UNCHANGED <<opt, hline>>
    /\ UNCHANGED <<txt_str, txt_lines>>
    /\ UNCHANGED <<lvars, gvars>>

\* the loop is left, by the break at a line RE does not match or with the
\* lines exhausted, and the header is built
HdrBuild ==
    /\ hstate = "scan"
    /\ hline <= Len(TxtLines) => IsNone(RE(HLine))
    /\ hres' = BuildHeader(opt)
    /\ hstate' = "done"
    /\ UNCHANGED <<txt_str, txt_lines, opt, hline>>
    /\ UNCHANGED <<lvars, gvars>>

HeaderNext ==
    \/ HdrSkip
    \/ HdrTag
    \/ HdrBuild

(***************************************************************************)
(* generate_song_txt (generator.rs 24-115)                                 *)
(***************************************************************************)
\* "#<key>:<value>\n"
TagTxt(key, value) == <<"#">> \o key \o <<":">> \o value \o <<"\n">>

\* the tag of an optional field, nothing when the field is None
OptTagTxt(key, o) == IF IsSome(o) THEN TagTxt(key, Unwrap(o)) ELSE <<>>

\* the orders in which HashMap::iter may yield the keys of the map m
IterOrders(m) ==
    {f \in [1..Cardinality(DOMAIN m) -> DOMAIN m] :
        \A i, j \in 1..Cardinality(DOMAIN m) : f[i] = f[j] => i = j}

\* the unknown tags, in the order ord
UnknownTxt(m, ord) == Concat([i \in 1..Len(ord) |-> TagTxt(ord[i], m[ord[i]])])

\* generate header, the keys of header.unknown yielded in the order ord
HeaderTxt(h, ord) ==
    TagTxt(TITLE, h.title) \o TagTxt(ARTIST, h.artist) \o TagTxt(MP3, h.audio_path)
    \o TagTxt(BPM, FormatFloat(h.bpm))
    \o (IF IsSome(h.gap) THEN TagTxt(GAP, FormatFloat(Unwrap(h.gap))) ELSE <<>>)
    \o OptTagTxt(COVER, h.cover_path)
    \o OptTagTxt(BACKGROUND, h.background_path)
    \o OptTagTxt(VIDEO, h.video_path)
    \o (IF IsSome(h.video_gap) THEN TagTxt(VIDEOGAP, FormatFloat(Unwrap(h.video_gap))) ELSE <<>>)
    \o OptTagTxt(GENRE, h.genre)
    \o OptTagTxt(EDITION, h.edition)
    \o OptTagTxt(LANGUAGE, h.language)
    \o (IF IsSome(h.year) THEN TagTxt(YEAR, FormatInt(Unwrap(h.year))) ELSE <<>>)
    \o (IF IsSome(h.relative)
        THEN (IF Unwrap(h.relative) THEN TagTxt(RELATIVE, <<"Y", "E", "S">>)
              ELSE TagTxt(RELATIVE, <<"N", "O">>))
        ELSE <<>>)
    \o (IF IsSome(h.unknown) THEN UnknownTxt(Unwrap(h.unknown), ord) ELSE <<>>)

\* MarkerTxt with the test line.start > 0
MarkerTxtPositive(line) ==
    IF line.start > 0
    THEN IF IsSome(line.rel)
         THEN <<"-", " ">> \o FormatInt(line.start) \o <<" ">>
              \o FormatInt(Unwrap(line.rel)) \o <<"\n">>
         ELSE <<"-", " ">> \o FormatInt(line.start) \o <<"\n">>
    ELSE <<>>

\* the line break the generator writes in front of the notes of a Line
MarkerTxt(line) ==
    IF line.start # 0
    THEN IF IsSome(line.rel)
         THEN <<"-", " ">> \o FormatInt(line.start) \o <<" ">>
              \o FormatInt(Unwrap(line.rel)) \o <<"\n">>
         ELSE <<"-", " ">> \o FormatInt(line.start) \o <<"\n">>
    ELSE <<>>

TimedTxt(sigil, note) ==
    <<sigil, " ">> \o FormatInt(note.start) \o <<" ">> \o FormatInt(note.duration)
    \o <<" ">> \o FormatInt(note.pitch) \o <<" ">> \o note.text \o <<"\n">>

\* match *note { ... }
NoteTxt(note) ==
    CASE note.type = "Regular" -> TimedTxt(":", note)
      [] note.type = "Golden" -> TimedTxt("*", note)
      [] note.type = "Freestyle" -> TimedTxt("F", note)
      [] note.type = "PlayerChange" -> <<"P">> \o FormatInt(note.player) \o <<"\n">>

NotesTxt(notes) == Concat([i \in 1..Len(notes) |-> NoteTxt(notes[i])])

\* generate header
GenHeader ==
    /\ gstate = "header"
    /\ \E ord \in (IF IsSome(header.unknown) THEN IterOrders(Unwrap(header.unknown))
                   ELSE {<<>>}) :
          song_txt_str' = HeaderTxt(header, ord)
    /\ gstate' = "lines"
    /\ UNCHANGED <<txt_str, txt_lines, header, lines, gline, gres>>
    /\ UNCHANGED <<hvars, lvars>>

\* generate lines: one iteration of for line in lines.iter()
GenLine ==
    /\ gstate = "lines"
    /\ gline <= Len(lines)
    /\ song_txt_str' = song_txt_str \o MarkerTxt(lines[gline]) \o NotesTxt(lines[gline].notes)
    /\ gline' = gline + 1
    /\ UNCHANGED <<txt_str, txt_lines, gstate, header, lines, gres>>
    /\ UNCHANGED <<hvars, lvars>>

\* song_txt_str.push_str("E"); Ok(song_txt_str)
GenEnd ==
    /\ gstate = "lines"
    /\ gline > Len(lines)
    /\ song_txt_str' = song_txt_str \o <<"E">>
    /\ gres' = Ok(song_txt_str')
    /\ gstate' = "done"
    /\ UNCHANGED <<txt_str, txt_lines, header, lines, gline>>
    /\ UNCHANGED <<hvars, lvars>>

GeneratorNext ==
    \/ GenHeader
    \/ GenLine
    \/ GenEnd

(***************************************************************************)
(* The generated text handed back to the parser, first to                  *)
(* parse_txt_header_str and then to parse_txt_lines_str.                   *)
(***************************************************************************)
RoundHeader ==
    /\ gstate = "done"
    /\ IsOk(gres)
    /\ hstate = "idle"
    /\ txt_str' = gres.val
    /\ txt_lines' = Lines(gres.val)
    /\ hstate' = "scan"
    /\ UNCHANGED <<hline, opt, hres>>
    /\ UNCHANGED <<lvars, gvars>>

RoundLines ==
    /\ gstate = "done"
    /\ hstate = "done"
    /\ lstate = "idle"
    /\ lstate' = "scan"
    /\ UNCHANGED <<txt_str, txt_lines, lline, lines_vec, current_line, found_end_indicator, lres>>
    /\ UNCHANGED <<hvars, gvars>>

(***************************************************************************)
(* The inputs: the texts handed to the parser and the songs handed to the  *)
(* generator.                                                              *)
(***************************************************************************)
\* the sequences of at most n elements of S
SeqsUpTo(S, n) == UNION {[1..k -> S] : k \in 0..n}

\* the lines a body text is made of
BodyPool ==
    {<<":", " ", "0", " ", "1", " ", "0", " ", "a">>,   \* : 0 1 0 a
     <<"*", " ", "1", " ", "2", " ", "-", "3", " ", "b">>,   \* * 1 2 -3 b
     <<"F", " ", "0", " ", "0", " ", "0">>,   \* F 0 0 0
     <<":", " ", "0", " ", "-", "1", " ", "0", " ", "a">>,   \* : 0 -1 0 a
     <<"X", " ", "0", " ", "1", " ", "0", " ", "a">>,   \* X 0 1 0 a
     <<"X", " ", "0", " ", "-", "1", " ", "0", " ", "a">>,   \* X 0 -1 0 a
     <<":", " ", "9", "9", " ", "-", "1", " ", "0", " ", "a">>,   \* : 99 -1 0 a
     <<"-", " ", "4">>,   \* - 4
     <<"-", " ", "4", " ", "2">>,   \* - 4 2
     <<"-", " ", "0">>,   \* - 0
     <<"-", " ", "9", "9">>,   \* - 99
     <<"P", "1">>,   \* P1
     <<"P", " ", "3">>,   \* P 3
     <<"P", "4">>,   \* P4
     <<"P", "0">>,   \* P0
     <<"P", "9", "9">>,   \* P99
     <<"P", "x">>,   \* Px
     <<"E">>,   \* E
     <<"B">>,   \* B
     <<"#", "X", ":", "a">>,   \* #X:a
     <<>>   \* (empty)
    }

BodyTexts == {JoinLines(ls) : ls \in SeqsUpTo(BodyPool, MaxBodyLines)}

\* tag lines of the recognized tags, each with a value its tag accepts
GoodTagLines ==
    {<<"#", "T", "I", "T", "L", "E", ":", "a">>,   \* #TITLE:a
     <<"#", "A", "R", "T", "I", "S", "T", ":", "a">>,   \* #ARTIST:a
     <<"#", "M", "P", "3", ":", "a">>,   \* #MP3:a
     <<"#", "B", "P", "M", ":", "1", ",", "5">>,   \* #BPM:1,5
     <<"#", "G", "A", "P", ":", "2">>,   \* #GAP:2
     <<"#", "C", "O", "V", "E", "R", ":", "a">>,   \* #COVER:a
     <<"#", "B", "A", "C", "K", "G", "R", "O", "U", "N", "D", ":", "a">>,   \* #BACKGROUND:a
     <<"#", "V", "I", "D", "E", "O", ":", "a">>,   \* #VIDEO:a
     <<"#", "V", "I", "D", "E", "O", "G", "A", "P", ":", "0", ".", "5">>,   \* #VIDEOGAP:0.5
     <<"#", "G", "E", "N", "R", "E", ":", "a">>,   \* #GENRE:a
     <<"#", "E", "D", "I", "T", "I", "O", "N", ":", "a">>,   \* #EDITION:a
     <<"#", "L", "A", "N", "G", "U", "A", "G", "E", ":", "a">>,   \* #LANGUAGE:a
     <<"#", "Y", "E", "A", "R", ":", "7">>,   \* #YEAR:7
     <<"#", "R", "E", "L", "A", "T", "I", "V", "E", ":", "Y", "E", "S">>,   \* #RELATIVE:YES
     <<"#", "T", "I", "T", "L", "E", ":", "b">>   \* #TITLE:b
    }

\* an empty value, values their tag rejects, spellings of YES and NO, an
\* unknown tag, a tag after other characters, a note line
OddHdrLines ==
    {<<"#", "T", "I", "T", "L", "E", ":">>,   \* #TITLE:
     <<"#", "B", "P", "M", ":", "x">>,   \* #BPM:x
     <<"#", "R", "E", "L", "A", "T", "I", "V", "E", ":", "y", "e", "s">>,   \* #RELATIVE:yes
     <<"#", "R", "E", "L", "A", "T", "I", "V", "E", ":", "N", "O">>,   \* #RELATIVE:NO
     <<"#", "R", "E", "L", "A", "T", "I", "V", "E", ":", "n", "o">>,   \* #RELATIVE:no
     <<"#", "R", "E", "L", "A", "T", "I", "V", "E", ":", "Y", "e", "s">>,   \* #RELATIVE:Yes
     <<"#", "R", "E", "L", "A", "T", "I", "V", "E", ":", "x">>,   \* #RELATIVE:x
     <<"#", "X", ":", "a">>,   \* #X:a
     <<"x", "#", "M", "P", "3", ":", "a">>,   \* x#MP3:a
     <<":", " ", "0", " ", "1", " ", "0", " ", "a">>   \* : 0 1 0 a
    }

\* the lines a header text is made of
HdrPool == GoodTagLines \cup OddHdrLines

\* the lines a header text may begin with: nothing, the essential tags but
\* MP3, the four essential tags
HdrPrefixes ==
    {<<>>,
     <<<<"#", "T", "I", "T", "L", "E", ":", "a">>, <<"#", "A", "R", "T", "I", "S", "T", ":", "a">>, <<"#", "B", "P", "M", ":", "1", ",", "5">>>>,
     <<<<"#", "T", "I", "T", "L", "E", ":", "a">>, <<"#", "A", "R", "T", "I", "S", "T", ":", "a">>, <<"#", "M", "P", "3", ":", "a">>, <<"#", "B", "P", "M", ":", "1", ",", "5">>>>}

HdrTexts ==
    {JoinLines(p \o ls) : p \in HdrPrefixes, ls \in SeqsUpTo(HdrPool, MaxHdrLines)}

HeaderIdle ==
    /\ hstate = "idle"
    /\ hline = 1
    /\ opt = NoOpt
    /\ hres = NoResult

\* the locals of parse_txt_lines_str before its loop
LinesLocals ==
    /\ lline = 1
    /\ lines_vec = <<>>
    /\ current_line = Line(0, None, <<>>)
    /\ found_end_indicator = FALSE
    /\ lres = NoResult

GeneratorIdle ==
    /\ gstate = "idle"
    /\ header = None
    /\ lines = <<>>
    /\ gline = 1
    /\ song_txt_str = <<>>
    /\ gres = NoResult

\* parse_txt_lines_str is called with a body text
InitLines ==
    /\ txt_str \in BodyTexts
    /\ txt_lines = Lines(txt_str)
    /\ lstate = "scan"
    /\ LinesLocals
    /\ HeaderIdle
    /\ GeneratorIdle

SpecLines == InitLines /\ [][LinesNext]_vars

\* parse_txt_header_str is called with a header text
InitHeader ==
    /\ txt_str \in HdrTexts
    /\ txt_lines = Lines(txt_str)
    /\ hstate = "scan"
    /\ hline = 1
    /\ opt = NoOpt
    /\ hres = NoResult
    /\ lstate = "idle"
    /\ LinesLocals
    /\ GeneratorIdle

SpecHeader == InitHeader /\ [][HeaderNext]_vars

\* a Header with the essential fields only
BaseHeader ==
    [title |-> <<"a">>, artist |-> <<"b">>, bpm |-> <<15, 1>>, audio_path |-> <<"c">>,
     gap |-> None, cover_path |-> None, background_path |-> None,
     video_path |-> None, video_gap |-> None, genre |-> None, edition |-> None,
     language |-> None, year |-> None, relative |-> None, unknown |-> None]

\* the Headers handed to the generator
Headers ==
    {[BaseHeader EXCEPT !.bpm = b, !.gap = g, !.genre = ge, !.year = y,
                        !.relative = r, !.unknown = u,
                        !.cover_path = m, !.background_path = m, !.video_path = m,
                        !.edition = m, !.language = m,
                        !.video_gap = IF IsSome(m) THEN Some(<<5, 1>>) ELSE None] :
        b \in {<<15, 1>>, <<100, 0>>},
        g \in {None, Some(<<-5, 1>>)},
        ge \in {None, Some(<<"r">>), Some(<<>>)},
        y \in {None, Some(7)},
        r \in {None, Some(TRUE), Some(FALSE)},
        u \in {None, Some([k \in {<<"X">>} |-> <<"a">>]),
               Some([k \in {<<"X">>, <<"y">>} |-> <<"b">>])},
        m \in {None, Some(<<"m">>)}}

\* the notes of a Line handed to the generator
NotesPool ==
    {<<>>,
     <<Regular(0, 1, 0, <<"a">>)>>,
     <<Golden(1, 2, -3, <<>>), PlayerChange(2)>>,
     <<PlayerChange(1), Freestyle(0, 0, 12, <<" ", "b">>)>>}

LinePool == {Line(s, r, ns) : s \in {0, 4, -1}, r \in {None, Some(2)}, ns \in NotesPool}

\* the songs handed to the generator: any Header with one Line, and the
\* essential Header with any Lines
Songs ==
    {<<h, <<Line(0, None, <<Regular(0, 1, 0, <<"a">>)>>)>>>> : h \in Headers}
    \cup {<<BaseHeader, ls>> : ls \in SeqsUpTo(LinePool, MaxSongLines)}

\* generate_song_txt is called with a song
InitRound ==
    /\ \E song \in Songs :
          /\ header = song[1]
          /\ lines = song[2]
    /\ gstate = "header"
    /\ gline = 1
    /\ song_txt_str = <<>>
    /\ gres = NoResult
    /\ txt_str = <<>>
    /\ txt_lines = <<>>
    /\ HeaderIdle
    /\ lstate = "idle"
    /\ LinesLocals

\* the steps of a round trip: the generator, then the two parsers on its text
RoundNext ==
    \/ GenHeader
    \/ GenLine
    \/ GenEnd
    \/ RoundHeader
    \/ RoundLines
    \/ HdrSkip
    \/ HdrTag
    \/ HdrBuild
    \/ LnHeader
    \/ LnEnd
    \/ LnNote
    \/ LnBreak
    \/ LnRelBreak
    \/ LnDuet
    \/ LnReturn

SpecRound == InitRound /\ [][RoundNext]_vars

Init ==
    \/ InitHeader
    \/ InitLines
    \/ InitRound

Next ==
    \/ HeaderNext
    \/ LinesNext
    \/ GeneratorNext
    \/ RoundHeader
    \/ RoundLines

Spec == Init /\ [][Next]_vars

(***************************************************************************)
(* Properties of parse_txt_lines_str, checked under SpecLines.             *)
(*                                                                         *)
(* The forms of a line are stated on the characters of the line, apart     *)
(* from the regular expressions of the parser: the fields of a line are    *)
(* its maximal runs of characters other than whitespace.                   *)
(***************************************************************************)
RECURSIVE SkipTo(_, _, _)
\* first index >= i of s whose character is in class (Len(s)+1 if none)
SkipTo(s, i, class) ==
    IF i > Len(s) THEN i
    ELSE IF s[i] \in class THEN i
    ELSE SkipTo(s, i + 1, class)

RECURSIVE FieldsFrom(_, _)
FieldsFrom(s, i) ==
    LET a == SkipWhile(s, i, White)
        e == SkipTo(s, a, White)
    IN  IF a > Len(s) THEN <<>> ELSE <<Slice(s, a, e - 1)>> \o FieldsFrom(s, e)

\* the fields of s after its first character
Fields(s) == FieldsFrom(s, 2)

\* an integer as the format writes it: digits, a "-" in front when negative
IsInteger(f) ==
    /\ Len(f) > 0
    /\ f[1] = "-" => Len(f) > 1
    /\ \A i \in 1..Len(f) : f[i] \in Digits \/ (i = 1 /\ f[i] = "-")

\* its value
IntegerOf(f) == IF f[1] = "-" THEN 0 - NatVal(Tail(f)) ELSE NatVal(f)

\* an integer the integer type holds
Representable(f) == IsInteger(f) /\ IntegerOf(f) >= 0 - MaxInt - 1 /\ IntegerOf(f) <= MaxInt

\* at most one whitespace between the first character and the first field
CloseFields(s) == Len(s) >= 3 /\ s[2] \in White => s[3] \notin White

\* '-' followed by exactly one integer
IsSimpleBreak(l) ==
    /\ Len(l) > 1 /\ l[1] = "-" /\ CloseFields(l)
    /\ Len(Fields(l)) = 1
    /\ Representable(Fields(l)[1])

\* '-' followed by two integers
IsRelativeBreak(l) ==
    /\ Len(l) > 1 /\ l[1] = "-" /\ CloseFields(l)
    /\ Len(Fields(l)) = 2
    /\ Representable(Fields(l)[1])
    /\ Representable(Fields(l)[2])

\* a sigil followed by three integers and a text, that none of the
\* first-character rules (#, B, E) takes
IsNoteLine(l) ==
    /\ Len(l) > 1 /\ l[1] \notin {"#", "B", "E"}
    /\ Len(Fields(l)) >= 3
    /\ \A i \in 1..3 : IsInteger(Fields(l)[i])

\* 'P<n>', n an integer
IsPlayerLine(l) ==
    /\ Len(l) > 1 /\ l[1] = "P" /\ CloseFields(l)
    /\ Len(Fields(l)) = 1
    /\ IsInteger(Fields(l)[1])

StartsWithE(l) == Len(l) > 0 /\ l[1] = "E"

AllLines == Append(lines_vec, current_line)

\* C4: parse_txt_lines_str returns Ok only with the scan at a line that starts
\* with 'E', and whenever all lines are consumed (none of them starting with
\* 'E', no error) it returns MissingEndIndicator.
C4_EndTerminatorRequired ==
    lstate = "done" =>
        /\ IsOk(lres) => lline <= Len(txt_lines) /\ StartsWithE(txt_lines[lline])
        /\ (\A i \in 1..Len(txt_lines) : ~StartsWithE(txt_lines[i])) => ~IsOk(lres)
        /\ lline > Len(txt_lines) => lres = Err(MissingEndIndicator)

\* notes were read and the text ended without an 'E' line
C4_Witness ==
    /\ lstate = "done"
    /\ Len(txt_lines) = 2
    /\ lline = 3
    /\ Len(current_line.notes) = 2
    /\ lres = Err(MissingEndIndicator)

\* C5: a line '-' with exactly one integer s opens a new Line with start = s
\* and rel absent, a line '-' with two integers s r opens a new Line with
\* start = s and rel = Some(r); the open Line is pushed in both cases.
C5_LineBreakDiscrimination ==
    [][/\ (LAtLine /\ IsSimpleBreak(LLine)) =>
            /\ lines_vec' = Append(lines_vec, current_line)
            /\ current_line' = Line(IntegerOf(Fields(LLine)[1]), None, <<>>)
       /\ (LAtLine /\ IsRelativeBreak(LLine)) =>
            /\ lines_vec' = Append(lines_vec, current_line)
            /\ current_line' = Line(IntegerOf(Fields(LLine)[1]),
                                    Some(IntegerOf(Fields(LLine)[2])), <<>>)]_vars

\* a simple break and then a relative break were read
C5_Witness ==
    /\ lstate = "scan"
    /\ lline = 3
    /\ IsSimpleBreak(txt_lines[1])
    /\ IsRelativeBreak(txt_lines[2])
    /\ lines_vec = <<Line(0, None, <<>>), Line(4, None, <<>>)>>
    /\ current_line = Line(4, Some(2), <<>>)

\* the notes of the note lines the properties use
KnownNote(l) ==
    CASE l = <<":", " ", "0", " ", "1", " ", "0", " ", "a">> -> Regular(0, 1, 0, <<"a">>)
      [] l = <<"*", " ", "1", " ", "2", " ", "-", "3", " ", "b">> -> Golden(1, 2, -3, <<"b">>)
      [] l = <<"F", " ", "0", " ", "0", " ", "0">> -> Freestyle(0, 0, 0, <<>>)
      [] l = <<"P", "1">> -> PlayerChange(1)
      [] l = <<"P", " ", "3">> -> PlayerChange(3)

IsKnownNote(l) ==
    l \in {<<":", " ", "0", " ", "1", " ", "0", " ", "a">>,
           <<"*", " ", "1", " ", "2", " ", "-", "3", " ", "b">>,
           <<"F", " ", "0", " ", "0", " ", "0">>,
           <<"P", "1">>,
           <<"P", " ", "3">>}

\* the text is a line break, then notes, then the 'E' line
MarkerNotesEnd ==
    /\ Len(txt_lines) >= 3
    /\ IsSimpleBreak(txt_lines[1]) \/ IsRelativeBreak(txt_lines[1])
    /\ \A i \in 2..(Len(txt_lines) - 1) : IsKnownNote(txt_lines[i])
    /\ txt_lines[Len(txt_lines)] = <<"E">>

\* the Line the marker and the notes of such a text describe
MarkedLine ==
    Line(IntegerOf(Fields(txt_lines[1])[1]),
         IF IsRelativeBreak(txt_lines[1]) THEN Some(IntegerOf(Fields(txt_lines[1])[2]))
         ELSE None,
         [i \in 1..(Len(txt_lines) - 2) |-> KnownNote(txt_lines[i + 1])])

\* C6 as claimed: a body that is a line break, notes and the 'E' line parses
\* to exactly one Line, with the start of the marker and the notes.
C6_SingleLine ==
    (lstate = "done" /\ MarkerNotesEnd) => (IsOk(lres) /\ lres.val = <<MarkedLine>>)

\* C6 as amended: such a body parses to exactly two Lines, the implicit first
\* Line (start 0, rel absent, no notes) and the Line of the marker with the
\* notes that follow it.
C6_ImplicitFirstLine ==
    (lstate = "done" /\ MarkerNotesEnd) =>
        (IsOk(lres) /\ lres.val = <<Line(0, None, <<>>), MarkedLine>>)

\* '- 4', a note and 'E' were parsed
C6_Witness ==
    /\ lstate = "done"
    /\ MarkerNotesEnd
    /\ txt_lines[1] = <<"-", " ", "4">>
    /\ IsOk(lres)
    /\ Len(lres.val) = 2
    /\ Len(lres.val[2].notes) = 1

NonNegativeDurations(ls) ==
    \A i \in 1..Len(ls) : \A j \in 1..Len(ls[i].notes) :
        ls[i].notes[j].type \in Timed => ls[i].notes[j].duration >= 0

\* the duration of the note line is a negative integer
NegativeDuration(l) ==
    /\ Fields(l)[2][1] = "-"
    /\ IntegerOf(Fields(l)[2]) < 0

\* C7: no Line the parser holds or returns has a timed note of duration < 0;
\* a note line with a negative duration (its start an integer the type
\* holds) fails with ValueError of that line and field "note duration".
C7_NonNegativeDuration ==
    [][/\ NonNegativeDurations(AllLines')
       /\ IsOk(lres') => NonNegativeDurations(lres'.val)
       /\ (LAtLine /\ IsNoteLine(LLine) /\ Representable(Fields(LLine)[1])
             /\ NegativeDuration(LLine)) =>
            lres' = Err(ValueError(lline, "note duration"))]_vars

\* a note line with duration -1 on line 2 failed the parse
C7_Witness ==
    /\ lstate = "done"
    /\ Len(txt_lines) >= 2
    /\ IsNoteLine(txt_lines[2])
    /\ NegativeDuration(txt_lines[2])
    /\ lres = Err(ValueError(2, "note duration"))

PlayersInRange(ls) ==
    \A i \in 1..Len(ls) : \A j \in 1..Len(ls[i].notes) :
        ls[i].notes[j].type = "PlayerChange" => ls[i].notes[j].player \in {1, 2, 3}

\* C8: 'P<n>' with n in 1..3 appends PlayerChange{n} to the open Line and
\* opens no Line; 'P<n>' with any other integer n, or one the type does not
\* hold, fails with ValueError of that line and field "player change"; every
\* PlayerChange held or returned has its player in 1..3.
C8_PlayerChangeRange ==
    [][/\ PlayersInRange(AllLines')
       /\ IsOk(lres') => PlayersInRange(lres'.val)
       /\ (LAtLine /\ IsPlayerLine(LLine)) =>
            IF Representable(Fields(LLine)[1]) /\ IntegerOf(Fields(LLine)[1]) \in {1, 2, 3}
            THEN /\ current_line' =
                       [current_line EXCEPT
                          !.notes = Append(@, PlayerChange(IntegerOf(Fields(LLine)[1])))]
                 /\ lines_vec' = lines_vec
                 /\ lres' = NoResult
            ELSE lres' = Err(ValueError(lline, "player change"))]_vars

\* a player change was appended to the open Line after a note
C8_Witness ==
    /\ lstate = "scan"
    /\ lines_vec = <<>>
    /\ current_line.notes = <<Regular(0, 1, 0, <<"a">>), PlayerChange(3)>>

(***************************************************************************)
(* Properties of parse_txt_header_str, checked under SpecHeader.           *)
(***************************************************************************)
RecognizedTags ==
    {TITLE, ARTIST, MP3, BPM, GAP, COVER, BACKGROUND, VIDEO, VIDEOGAP, GENRE,
     EDITION, LANGUAGE, YEAR, RELATIVE}

\* the name of a recognized tag, as DuplicateHeader carries it
TagName(key) ==
    CASE key = TITLE -> "TITLE" [] key = ARTIST -> "ARTIST" [] key = MP3 -> "MP3"
      [] key = BPM -> "BPM" [] key = GAP -> "GAP" [] key = COVER -> "COVER"
      [] key = BACKGROUND -> "BACKGROUND" [] key = VIDEO -> "VIDEO"
      [] key = VIDEOGAP -> "VIDEOGAP" [] key = GENRE -> "GENRE"
      [] key = EDITION -> "EDITION" [] key = LANGUAGE -> "LANGUAGE"
      [] key = YEAR -> "YEAR" [] key = RELATIVE -> "RELATIVE"

\* the line is '#<key>:<value>' with a value
IsTagLine(l, key) ==
    /\ Len(l) > Len(key) + 2
    /\ SubSeq(l, 1, Len(key) + 2) = <<"#">> \o key \o <<":">>

\* the value of such a line
ValueOf(l, key) == SubSeq(l, Len(key) + 3, Len(l))

\* '#<key>:' and a value occur somewhere in the line
ContainsTag(l, key) ==
    \E i \in 1..Len(l) :
        /\ i + Len(key) + 2 <= Len(l)
        /\ SubSeq(l, i, i + Len(key) + 1) = <<"#">> \o key \o <<":">>

\* the text has no tag key with a value
Lacks(key) == \A i \in 1..Len(txt_lines) : ~ContainsTag(txt_lines[i], key)

\* C2: when the scan is at the second line with a recognized tag and a value
\* (no earlier line having raised an error), the parser returns
\* DuplicateHeader with the line number of that line and the name of the tag,
\* and the value stored first is kept.
C2_DuplicateDetection ==
    [][\A key \in RecognizedTags :
          (/\ HAtLine
           /\ IsTagLine(HLine, key)
           /\ \E i \in 1..(hline - 1) : IsTagLine(txt_lines[i], key)) =>
          /\ hres' = Err(DuplicateHeader(hline, TagName(key)))
          /\ opt' = opt]_vars

\* #RELATIVE:YES and then #RELATIVE:NO on line 2
C2_Witness ==
    /\ hstate = "done"
    /\ Len(txt_lines) = 2
    /\ IsTagLine(txt_lines[1], RELATIVE)
    /\ IsTagLine(txt_lines[2], RELATIVE)
    /\ txt_lines[1] # txt_lines[2]
    /\ hres = Err(DuplicateHeader(2, "RELATIVE"))
    /\ opt.relative = Some(TRUE)

Essential == {TITLE, ARTIST, BPM, MP3}

\* C3 as claimed: a text without one of the essential tags yields
\* MissingEssential, whatever else it contains.
C3_MissingEssentialAlways ==
    (hstate = "done" /\ \E key \in Essential : Lacks(key)) => hres = Err(MissingEssential)

\* no line raises an error: each line is free of '#' or a tag line whose tag
\* accepts its value, and no recognized tag is on two lines
CleanText ==
    /\ \A i \in 1..Len(txt_lines) :
          txt_lines[i] \in GoodTagLines \/ \A j \in 1..Len(txt_lines[i]) : txt_lines[i][j] # "#"
    /\ \A key \in RecognizedTags :
          \A i, j \in 1..Len(txt_lines) :
              IsTagLine(txt_lines[i], key) /\ IsTagLine(txt_lines[j], key) => i = j

\* C3 as amended: for a text without one of the essential tags the parser
\* never returns a Header; it returns MissingEssential unless a line of the
\* text raised DuplicateHeader or ValueError first, and it returns
\* MissingEssential whenever no line raises an error.
C3_MissingEssentialUnlessError ==
    (hstate = "done" /\ \E key \in Essential : Lacks(key)) =>
        /\ IsErr(hres)
        /\ hres.err.kind \in {"MissingEssential", "DuplicateHeader", "ValueError"}
        /\ hres.err.kind # "MissingEssential" => hres.err.line \in 1..Len(txt_lines)
        /\ CleanText => hres = Err(MissingEssential)

\* TITLE, ARTIST and BPM are there, MP3 is not
C3_Witness ==
    /\ hstate = "done"
    /\ Lacks(MP3)
    /\ ~Lacks(TITLE) /\ ~Lacks(ARTIST) /\ ~Lacks(BPM)
    /\ IsSome(opt.title) /\ IsSome(opt.artist) /\ IsSome(opt.bpm)
    /\ hres = Err(MissingEssential)

\* the letters of YES and NO in lower case
LowerCase(s) ==
    [i \in 1..Len(s) |->
        CASE s[i] = "Y" -> "y" [] s[i] = "E" -> "e" [] s[i] = "S" -> "s"
          [] s[i] = "N" -> "n" [] s[i] = "O" -> "o" [] OTHER -> s[i]]

\* C9: the first RELATIVE tag with a value sets relative = true for every
\* capitalisation of 'yes', relative = false for every capitalisation of 'no',
\* and fails with ValueError of field "RELATIVE" for any other value.
C9_RelativeCaseInsensitive ==
    [][(/\ HAtLine
        /\ IsTagLine(HLine, RELATIVE)
        /\ \A i \in 1..(hline - 1) : ~IsTagLine(txt_lines[i], RELATIVE)) =>
          LET value == LowerCase(ValueOf(HLine, RELATIVE))
          IN  IF value = <<"y", "e", "s">>
                  THEN opt' = [opt EXCEPT !.relative = Some(TRUE)]
              ELSE IF value = <<"n", "o">>
                  THEN opt' = [opt EXCEPT !.relative = Some(FALSE)]
              ELSE hres' = Err(ValueError(hline, "RELATIVE"))]_vars

(***************************************************************************)
(* Properties of generate_song_txt and of the round trip, checked under    *)
(* SpecRound.                                                              *)
(***************************************************************************)
\* the tags the generator writes for the Header h
HeaderLineCount(h) ==
    4 + Cardinality({f \in {"gap", "cover_path", "background_path", "video_path",
                            "video_gap", "genre", "edition", "language", "year",
                            "relative"} : IsSome(h[f])})
      + (IF IsSome(h.unknown) THEN Cardinality(DOMAIN Unwrap(h.unknown)) ELSE 0)

Sigil(note) ==
    CASE note.type = "Regular" -> ":"
      [] note.type = "Golden" -> "*"
      [] note.type = "Freestyle" -> "F"

\* the output line of a Note
NoteLine(note) ==
    IF note.type = "PlayerChange" THEN <<"P">> \o FormatInt(note.player)
    ELSE <<Sigil(note), " ">> \o FormatInt(note.start) \o <<" ">>
         \o FormatInt(note.duration) \o <<" ">> \o FormatInt(note.pitch)
         \o <<" ">> \o note.text

\* the output lines of a Line: a marker if and only if start # 0, the Notes
LineLines(line) ==
    (IF line.start = 0 THEN <<>>
     ELSE IF IsSome(line.rel)
          THEN <<(<<"-", " ">> \o FormatInt(line.start) \o <<" ">>
                  \o FormatInt(Unwrap(line.rel)))>>
          ELSE <<(<<"-", " ">> \o FormatInt(line.start))>>)
    \o [i \in 1..Len(line.notes) |-> NoteLine(line.notes[i])]

BodyLines(ls) == Concat([i \in 1..Len(ls) |-> LineLines(ls[i])]) \o <<(<<"E">>)>>

\* C10: generate_song_txt returns Ok; after the tags of the header its output
\* is, for each Line in order, a marker if and only if start # 0 and one line
\* per Note with the sigil of its variant, then 'E' with no newline after it.
C10_BodyFormat ==
    gstate = "done" =>
        /\ IsOk(gres)
        /\ gres.val[Len(gres.val)] = "E"
        /\ LET out == Lines(gres.val)
           IN  SubSeq(out, HeaderLineCount(header) + 1, Len(out)) = BodyLines(lines)

\* a Line with start 0, then a Line with a negative start, a rel and two notes
C10_Witness ==
    /\ gstate = "done"
    /\ Len(lines) = 2
    /\ lines[1].start = 0
    /\ lines[2].start < 0
    /\ IsSome(lines[2].rel)
    /\ Len(lines[2].notes) = 2

\* a song as the parser itself returns it: no empty string in the Header,
\* the implicit first Line (start 0, rel absent) in front
ParserSong ==
    /\ header.genre # Some(<<>>)
    /\ Len(lines) >= 1
    /\ lines[1].start = 0
    /\ lines[1].rel = None

\* C1: generate_song_txt succeeds and parsing its text gives back a Header
\* equal to the Header and a Line sequence equal to the Lines (stated for the
\* songs the parser itself returns, which the claim covers).
C1_RoundTrip ==
    (gstate = "done" /\ hstate = "done" /\ lstate = "done" /\ ParserSong) =>
        /\ IsOk(gres)
        /\ IsOk(hres) /\ hres.val = header
        /\ IsOk(lres) /\ lres.val = lines

\* a line the note pattern matches whose sigil is none of ':', '*', 'F'
UnknownSigil(l) ==
    /\ l # <<>> /\ l[1] \notin {"#", "B", "E"}
    /\ IsSome(NOTE_RE(l))
    /\ Unwrap(NOTE_RE(l)).c1 \notin {<<":">>, <<"*">>, <<"F">>}

\* C13: every line that matches the note pattern and whose sigil is not
\* ':', '*' or 'F' fails the parse with UnknownNoteType of that line,
\* whatever its three integers are.
C13_UnknownSigilFirst ==
    [][(LAtLine /\ UnknownSigil(LLine)) =>
            lres' = Err(UnknownNoteType(lline))]_vars

\* the line does not begin with '#', so it is no '#<TAG>:<value>' tag line
NoTagLine(l) == l = <<>> \/ l[1] # "#"

\* C11: the header scan stops at the first line that is not a tag line: at
\* such a line the parser returns what it builds from the fields it holds,
\* and the line contributes no field and raises no error.
C11_HeaderStrictPrefix ==
    [][(HAtLine /\ NoTagLine(HLine)) =>
            /\ hstate' = "done"
            /\ hres' = BuildHeader(opt)
            /\ opt' = opt]_vars

(***************************************************************************)
(* parse_txt_lines_str as a function of the lines of its text: the loop of *)
(* parser.rs 304-447 from line i on with lines_vec lv and current_line cl.  *)
(***************************************************************************)
RECURSIVE ScanFrom(_, _, _, _)
ScanFrom(ls, i, lv, cl) ==
    IF i > Len(ls) THEN Err(MissingEndIndicator)
    ELSE LET l == ls[i]
         IN  IF l = <<>> THEN Err(ParserFailure(i))
             ELSE IF l[1] = "#" THEN ScanFrom(ls, i + 1, lv, cl)
             ELSE IF l[1] = "B" THEN Err(NotImplemented(i, "variable bpm"))
             ELSE IF l[1] = "E" THEN Ok(Append(lv, cl))
             ELSE IF IsSome(NOTE_RE(l)) THEN
                 LET note == NoteOf(Unwrap(NOTE_RE(l)), i)
                 IN  IF IsOk(note)
                     THEN ScanFrom(ls, i + 1, lv, [cl EXCEPT !.notes = Append(@, note.val)])
                     ELSE note
             ELSE IF IsSome(LINE_RE(l)) THEN
                 LET new == LineBreakOf(Unwrap(LINE_RE(l)), i)
                 IN  IF IsOk(new) THEN ScanFrom(ls, i + 1, Append(lv, cl), new.val)
                     ELSE new
             ELSE IF IsSome(LREL_RE(l)) THEN
                 LET new == RelBreakOf(Unwrap(LREL_RE(l)), i)
                 IN  IF IsOk(new) THEN ScanFrom(ls, i + 1, Append(lv, cl), new.val)
                     ELSE new
             ELSE IF IsSome(DUET_RE(l)) THEN
                 LET note == DuetOf(Unwrap(DUET_RE(l)), i)
                 IN  IF IsOk(note)
                     THEN ScanFrom(ls, i + 1, lv, [cl EXCEPT !.notes = Append(@, note.val)])
                     ELSE note
             ELSE Err(ParserFailure(i))

\* the result of parse_txt_lines_str for the text of lines ls
parse_txt_lines_str(ls) == ScanFrom(ls, 1, <<>>, Line(0, None, <<>>))

\* the text has a line starting with 'E'
HasEnd == \E i \in 1..Len(txt_lines) : StartsWithE(txt_lines[i])

\* the number of the first such line
FirstEnd ==
    CHOOSE i \in 1..Len(txt_lines) :
        /\ StartsWithE(txt_lines[i])
        /\ \A j \in 1..(i - 1) : ~StartsWithE(txt_lines[j])

\* the text cut after its first line starting with 'E'
UpToEnd == SubSeq(txt_lines, 1, FirstEnd)

\* C12: the result for a text with a line starting with 'E' is the result
\* for the text cut after the first such line, whatever follows it; when the
\* scan reaches that line (no line before it failed) the result is Ok of
\* the Lines held, the accumulator being the last of them.
C12_EndStopsScan ==
    (lstate = "done" /\ HasEnd) =>
        /\ lres = parse_txt_lines_str(UpToEnd)
        /\ lline = FirstEnd =>
              /\ lres = Ok(lines_vec)
              /\ lines_vec # <<>>
              /\ lines_vec[Len(lines_vec)] = current_line

\* an Ok parse of a text whose first 'E' line is followed by a line that
\* would fail on its own (empty, 'B', a bad note, an unknown line)
C12_Witness ==
    /\ lstate = "done" /\ HasEnd
    /\ FirstEnd < Len(txt_lines)
    /\ FirstEnd > 1
    /\ IsErr(parse_txt_lines_str(<<txt_lines[FirstEnd + 1], <<"E">>>>))
    /\ IsOk(lres)
    /\ Len(lres.val[1].notes) > 0

====
